---- MODULE Spec2Model ----
(***************************************************************************)
(* JABuff: fixed-capacity circular buffers for streaming data.             *)
(*                                                                         *)
(*   FramingRingBuffer2D  [channel][feature]        (variant "2D")         *)
(*   FramingRingBuffer3D  [channel][time][feature]  (variant "3D")         *)
(*   OLARingBuffer2D      crossfaded splice writes  (variant "OLA")        *)
(*                                                                         *)
(* One buffer instance is modelled.  Init is the state right after a       *)
(* successful constructor call; every public mutating method is one        *)
(* action.  size_t arithmetic is modular (SizeMod), storage is one         *)
(* function per channel over the positions 0 .. capacity-1.                *)
(***************************************************************************)
EXTENDS Integers, Sequences, FiniteSets, TLC

VARIABLES
    variant,        \* "2D", "3D" or "OLA": which class the instance is
    channels,       \* m_num_channels
    capacity,       \* m_capacity_features / m_capacity_time / m_capacity_samples
    frameSize,      \* m_frame_size_features / m_frame_size_time / m_frame_size
    hopSize,        \* m_hop_size_features / m_hop_size_time / m_hop_size
    minFrames,      \* m_min_frames
    keepFrames,     \* m_keep_frames
    featureDim,     \* m_feature_dim (3D), 0 otherwise
    overlapSize,    \* m_overlap_size (OLA), 0 otherwise
    storage,        \* m_buffer / m_buffers: [1..channels -> [0..capacity-1 -> element]]
    writeCursor,    \* m_write_index_*
    readCursor,     \* m_read_index_*
    available,      \* m_available_*
    op,             \* the last call made on the instance
    ret,            \* how the last call ended: a return value or an exception
    out,            \* buffer_out of the last read (passed in empty)
    fifo,           \* reference queue: per channel, what was written and not yet consumed
                    \* (kept for the framing buffers and for the OLA buffer without overlap)
    twin,           \* the storage a newly constructed instance would hold after the
                    \* calls made since the last clear()
    history         \* "filling": only successful writes since the buffer was empty;
                    \* "roundtrip": the last call read every frame of such a buffer;
                    \* "primed": the last call was prime() on an empty buffer;
                    \* "constant": the last OLA write spliced in a constant block

params == <<variant, channels, capacity, frameSize, hopSize, minFrames,
            keepFrames, featureDim, overlapSize>>
cursors == <<writeCursor, readCursor, available>>
bufstate == <<storage, writeCursor, readCursor, available>>
vars == <<variant, channels, capacity, frameSize, hopSize, minFrames,
          keepFrames, featureDim, overlapSize, storage, writeCursor,
          readCursor, available, op, ret, out, fifo, twin, history>>

(***************************************************************************)
(* Bounds of the model.                                                    *)
(***************************************************************************)
SizeBits == 6           \* width given to size_t in the model
MaxLen == 3             \* longest input slice of a write
MaxOffset == 1          \* largest offset argument of a write
MaxNumFrames == 3       \* largest num_frames argument of a read
NumVals == 2            \* distinct sample values
MaxDebt == 3            \* how far available may run below zero (wrapped)

SizeMod == 2 ^ SizeBits
Vals == 0 .. (NumVals - 1)
Garbage == NumVals + 100    \* what an out-of-bounds read yields

Min(a, b) == IF a < b THEN a ELSE b

(***************************************************************************)
(* size_t arithmetic: unsigned, wraps modulo SizeMod.                      *)
(***************************************************************************)
SzAdd(a, b) == (a + b) % SizeMod
SzSub(a, b) == (a - b + SizeMod * SizeMod) % SizeMod
SzMul(a, b) == (a * b) % SizeMod

\* std::vector::resize beyond max_size throws std::length_error
AllocLimit == SizeMod \div 2

(***************************************************************************)
(* Queries.                                                                *)
(***************************************************************************)
\* faulty variant: counts a frame before a whole frame is buffered
FramesOfGenerous(av, frame, hop) == SzAdd(1, av \div hop)

FramesOf(av, frame, hop) ==
    IF av < frame THEN 0 ELSE SzAdd(1, SzSub(av, frame) \div hop)

getAvailableFramesRead == FramesOf(available, frameSize, hopSize)

getAvailableWrite == SzSub(capacity, available)

isFull == getAvailableWrite = 0

isEmpty == available = 0

ready == getAvailableFramesRead >= minFrames


\* available has wrapped below zero by Debt elements (0 when it has not)
Debt == IF available > capacity THEN SizeMod - available ELSE 0

(***************************************************************************)
(* Caller-supplied data.  The value at channel c, position t of a block    *)
(* is a ramp starting at a seed, so neighbouring positions and channels    *)
(* differ; a 3D element is a vector of dim values.                         *)
(***************************************************************************)
Sample(seed, c, t) == (seed + c + t) % NumVals

Element(seed, c, t, dim) ==
    IF variant = "3D"
    THEN [f \in 1 .. dim |-> (seed + c + t + f) % NumVals]
    ELSE Sample(seed, c, t)

\* a block of nch channels whose channel c holds len[c] elements; the
\* elements at the positions in bad carry one feature too many
Block(seed, nch, len, bad) ==
    [c \in 1 .. nch |->
        [t \in 1 .. len[c] |->
            Element(seed, c, t, IF <<c, t>> \in bad THEN featureDim + 1
                                ELSE featureDim)]]

GoodBlocks ==
    { Block(0, channels, [c \in 1 .. channels |-> n], {}) : n \in 0 .. MaxLen }

WrongChannelBlocks ==
    { Block(0, nch, [c \in 1 .. nch |-> 2], {}) :
        nch \in {0, channels - 1, channels + 1} }

RaggedBlocks ==
    IF channels < 2 THEN {}
    ELSE { Block(0, channels,
                 [c \in 1 .. channels |-> IF c = channels THEN n + 1 ELSE n], {}) :
             n \in 0 .. 1 }

BadFeatureBlocks ==
    IF variant # "3D" THEN {}
    ELSE { Block(0, channels, [c \in 1 .. channels |-> 2], {<<bc, bt>>}) :
             bc \in 1 .. channels, bt \in 1 .. 2 }

\* the calls write(data, offset, num) that are made: every slice of a
\* well-shaped ramp, a count so large that offset + count wraps, and the
\* ill-shaped blocks with a few slices
WriteCalls ==
    (GoodBlocks \X (0 .. MaxOffset) \X (0 .. MaxLen))
    \cup (GoodBlocks \X {1} \X {SizeMod - 1})
    \cup ((WrongChannelBlocks \cup RaggedBlocks \cup BadFeatureBlocks)
          \X {0} \X (0 .. 1))

\* one time step for push: 2D gets one value per channel, 3D one vector
Step(seed, nch, bad) ==
    [c \in 1 .. nch |->
        Element(seed, c, 0, IF c \in bad THEN featureDim + 1 ELSE featureDim)]

PushInputs ==
    { Step(seed, channels, {}) : seed \in Vals }
    \cup { Step(0, nch, {}) : nch \in {0, channels + 1} }
    \cup (IF variant # "3D" THEN {}
          ELSE { Step(0, channels, {bc}) : bc \in 1 .. channels })

\* the n elements of channel c of data that follow offset
Slice(data, c, offset, n) == [i \in 1 .. n |-> data[c][offset + i]]

\* the n copies of value that prime() writes to one channel
FillSlice(value, n) ==
    [i \in 1 .. n |->
        IF variant = "3D" THEN [f \in 1 .. featureDim |-> value] ELSE value]

(***************************************************************************)
(* Reference queue: an unbounded FIFO per channel.  Elements consumed      *)
(* before they were written (Debt) are dropped when they arrive.           *)
(***************************************************************************)
DropFirst(s, k) == SubSeq(s, Min(k, Len(s)) + 1, Len(s))

FifoPut(slices) ==
    [c \in 1 .. channels |-> fifo[c] \o DropFirst(slices[c], Debt)]

FifoTake(k) == [c \in 1 .. channels |-> DropFirst(fifo[c], k)]

EmptyFifo == [c \in 1 .. channels |-> <<>>]

\* the history after a write that ended with r, and after a read(out, n)
\* that ended with r
HistoryAfterWrite(r) ==
    IF r = "true" /\ (available = 0 \/ history = "filling") THEN "filling"
    ELSE "other"

HistoryAfterRead(n, r) ==
    IF r = "true" /\ n = 0 /\ history = "filling" THEN "roundtrip" ELSE "other"


(***************************************************************************)
(* FramingRingBuffer2D / FramingRingBuffer3D : validateWriteInput.         *)
(* The result is the exception thrown ("none" when it returns) and the     *)
(* value left in calculated_write_size.                                    *)
(***************************************************************************)
ValidateCommon(data, offset, num) ==
    IF Len(data) # channels
    THEN [err |-> "invalid_argument", size |-> 0]
    ELSE LET input_size == Len(data[1])
             calc == IF num = 0 THEN SzSub(input_size, offset) ELSE num
         IN  IF \E c \in 2 .. channels : Len(data[c]) # input_size
             THEN [err |-> "invalid_argument", size |-> 0]
             ELSE IF offset >= input_size /\ input_size > 0
             THEN [err |-> "out_of_range", size |-> 0]
             ELSE IF SzAdd(offset, calc) > input_size
             THEN [err |-> "out_of_range", size |-> calc]
             ELSE [err |-> "none", size |-> calc]

validateWriteInput2D(data, offset, num) == ValidateCommon(data, offset, num)

\* 3D goes on to check the feature dimension of every time step of the
\* slice, channel by channel; a step index beyond the input is an
\* out-of-bounds vector access
validateWriteInput3D(data, offset, num) ==
    LET v == ValidateCommon(data, offset, num)
        input_size == Len(data[1])
    IN  IF v.err # "none" \/ v.size = 0 THEN v
        ELSE IF offset + v.size > input_size
        THEN [err |-> "ub", size |-> v.size]
        ELSE IF \E c \in 1 .. channels, t \in 0 .. (v.size - 1) :
                    Len(data[c][offset + t + 1]) # featureDim
        THEN [err |-> "invalid_argument", size |-> v.size]
        ELSE v

(***************************************************************************)
(* Copying into and out of the circular storage of one channel.            *)
(* src and the result of CopyOut are sequences (index 1 is element 0).     *)
(***************************************************************************)
\* faulty variant: only the first memcpy, the part of the block past the
\* physical end is lost
CopyIn2DOneSegment(buf, src, n, wpos) ==
    [p \in 0 .. (capacity - 1) |->
        IF p >= wpos /\ p < wpos + n THEN src[p - wpos + 1] ELSE buf[p]]

\* 2D write: one memcpy, or two when the block crosses the physical end
CopyIn2D(buf, src, n, wpos) ==
    LET space_to_end == capacity - wpos
    IN  [p \in 0 .. (capacity - 1) |->
            IF n > space_to_end
            THEN IF p < n - space_to_end THEN src[space_to_end + p + 1]
                 ELSE IF p >= wpos THEN src[p - wpos + 1]
                 ELSE buf[p]
            ELSE IF p >= wpos /\ p < wpos + n THEN src[p - wpos + 1]
                 ELSE buf[p]]

\* 3D write: step t goes to (wpos + t) % capacity, in increasing t
CopyIn3D(buf, src, n, wpos) ==
    [p \in 0 .. (capacity - 1) |->
        LET ts == {t \in 0 .. (n - 1) : (wpos + t) % capacity = p}
        IN  IF ts = {} THEN buf[p]
            ELSE src[(CHOOSE t \in ts : \A u \in ts : u <= t) + 1]]

\* faulty variant: the span does not wrap, it stays on the last slot
CopyOut2DClamped(buf, total, rpos) ==
    [j \in 1 .. total |->
        buf[IF rpos + j - 1 < capacity THEN rpos + j - 1 ELSE capacity - 1]]

\* 2D read: one memcpy, or two when the span crosses the physical end;
\* what lies beyond the storage is Garbage
CopyOut2D(buf, total, rpos) ==
    LET space_to_end == capacity - rpos
    IN  [j \in 1 .. total |->
            IF total > space_to_end
            THEN IF j - 1 < space_to_end THEN buf[rpos + j - 1]
                 ELSE IF j - 1 - space_to_end < capacity
                 THEN buf[j - 1 - space_to_end]
                 ELSE Garbage
            ELSE buf[rpos + j - 1]]

\* faulty variant: the span starts one step late
CopyOut3DShifted(buf, total, rpos) ==
    [j \in 1 .. total |-> buf[(rpos + j) % capacity]]

\* 3D read: step t comes from (rpos + t) % capacity
CopyOut3D(buf, total, rpos) ==
    [j \in 1 .. total |-> buf[(rpos + j - 1) % capacity]]

\* the model keeps the wrap of available within MaxDebt of zero
DebtBounded(av) == av <= capacity \/ SizeMod - av <= MaxDebt

(***************************************************************************)
(* What a call leaves behind: how it ended (ret), the buffer after it, and *)
(* the number of elements per channel it stored (count).                   *)
(***************************************************************************)
\* the call ended with r and changed nothing
Untouched(r) ==
    [ret |-> r, storage |-> storage, writeCursor |-> writeCursor,
     readCursor |-> readCursor, available |-> available, count |-> 0]

\* the call ended with r after the copy and the index update of a write
\* of the slices, n elements each
Stored(r, slices, n) ==
    [ret |-> r,
     storage |-> [c \in 1 .. channels |->
                     IF variant = "3D"
                     THEN CopyIn3D(storage[c], slices[c], n, writeCursor)
                     ELSE CopyIn2D(storage[c], slices[c], n, writeCursor)],
     writeCursor |-> (writeCursor + n) % capacity,
     readCursor |-> readCursor,
     available |-> SzAdd(available, n),
     count |-> n]

\* the storage of a newly constructed instance: resize() value-initialises
NewStorage ==
    [c \in 1 .. channels |->
        [p \in 0 .. (capacity - 1) |->
            IF variant = "3D" THEN [f \in 1 .. featureDim |-> 0] ELSE 0]]

\* the copy of a write of the slices, n elements each, made on the twin
TwinStored(slices, n) ==
    [c \in 1 .. channels |->
        IF variant = "3D" THEN CopyIn3D(twin[c], slices[c], n, writeCursor)
        ELSE CopyIn2D(twin[c], slices[c], n, writeCursor)]

\* the next state of the buffer is what the call left behind
Becomes(a) ==
    /\ ret' = a.ret
    /\ storage' = a.storage
    /\ writeCursor' = a.writeCursor
    /\ readCursor' = a.readCursor
    /\ available' = a.available

(***************************************************************************)
(* write                                                                   *)
(***************************************************************************)
\* the second memcpy of a 2D write would run past the end of the storage
Overrun2D(n) ==
    n > capacity - writeCursor /\ n - (capacity - writeCursor) > capacity

WriteResult2D(data, offset, num) ==
    IF Len(data) = 0 THEN Untouched("true")
    ELSE LET v == validateWriteInput2D(data, offset, num)
         IN  IF v.err # "none" THEN Untouched(v.err)
             ELSE IF v.size = 0 THEN Untouched("true")
             ELSE IF v.size > getAvailableWrite THEN Untouched("false")
             ELSE IF Overrun2D(v.size) THEN Untouched("ub")
             ELSE Stored("true",
                         [c \in 1 .. channels |-> Slice(data, c, offset, v.size)],
                         v.size)

WriteResult3D(data, offset, num) ==
    IF Len(data) = 0 THEN Untouched("true")
    ELSE LET v == validateWriteInput3D(data, offset, num)
         IN  IF v.err # "none" THEN Untouched(v.err)
             ELSE IF v.size = 0 THEN Untouched("true")
             ELSE IF v.size > getAvailableWrite THEN Untouched("false")
             ELSE Stored("true",
                         [c \in 1 .. channels |-> Slice(data, c, offset, v.size)],
                         v.size)

Write2D(data, offset, num) ==
    /\ variant = "2D"
    /\ ret # "ub"
    /\ op' = "write"
    /\ out' = <<>>
    /\ UNCHANGED params
    /\ LET a == WriteResult2D(data, offset, num)
       IN  /\ Becomes(a)
           /\ history' = HistoryAfterWrite(a.ret)
           /\ fifo' = IF a.count = 0 THEN fifo
                      ELSE FifoPut([c \in 1 .. channels |->
                                       Slice(data, c, offset, a.count)])
           /\ twin' = IF a.count = 0 THEN twin
                      ELSE TwinStored([c \in 1 .. channels |->
                                          Slice(data, c, offset, a.count)],
                                      a.count)

Write3D(data, offset, num) ==
    /\ variant = "3D"
    /\ ret # "ub"
    /\ op' = "write"
    /\ out' = <<>>
    /\ UNCHANGED params
    /\ LET a == WriteResult3D(data, offset, num)
       IN  /\ Becomes(a)
           /\ history' = HistoryAfterWrite(a.ret)
           /\ fifo' = IF a.count = 0 THEN fifo
                      ELSE FifoPut([c \in 1 .. channels |->
                                       Slice(data, c, offset, a.count)])
           /\ twin' = IF a.count = 0 THEN twin
                      ELSE TwinStored([c \in 1 .. channels |->
                                          Slice(data, c, offset, a.count)],
                                      a.count)

(***************************************************************************)
(* push: one element per channel                                           *)
(***************************************************************************)
\* 3D: the channel count is checked first, then the free space; the
\* feature dimension of each channel is checked inside the copy loop, so
\* the channels before the first ill-sized one are already copied when it
\* throws
PushCopy(buf, step) ==
    LET bad == {c \in 1 .. channels : Len(step[c]) # featureDim}
        stop == IF bad = {} THEN channels + 1
                ELSE CHOOSE c \in bad : \A d \in bad : c <= d
    IN  [c \in 1 .. channels |->
            IF c < stop THEN [buf[c] EXCEPT ![writeCursor] = step[c]]
            ELSE buf[c]]

PushResult3D(step) ==
    IF Len(step) # channels THEN Untouched("invalid_argument")
    ELSE IF getAvailableWrite < 1 THEN Untouched("false")
    ELSE LET bad == {c \in 1 .. channels : Len(step[c]) # featureDim}
             copied == PushCopy(storage, step)
         IN  IF bad # {}
             THEN [Untouched("invalid_argument") EXCEPT !.storage = copied]
             ELSE [ret |-> "true", storage |-> copied,
                   writeCursor |-> (writeCursor + 1) % capacity,
                   readCursor |-> readCursor,
                   available |-> SzAdd(available, 1), count |-> 1]

Push3D(step) ==
    /\ variant = "3D"
    /\ ret # "ub"
    /\ op' = "push"
    /\ out' = <<>>
    /\ UNCHANGED params
    /\ history' = "other"
    /\ LET a == PushResult3D(step)
       IN  /\ Becomes(a)
           /\ fifo' = IF a.count = 0 THEN fifo
                      ELSE FifoPut([c \in 1 .. channels |-> <<step[c]>>])
           /\ twin' = IF Len(step) # channels \/ getAvailableWrite < 1
                      THEN twin
                      ELSE PushCopy(twin, step)

\* 2D: a write of count 1 whose input is one value per channel
PushResult2D(step) ==
    IF Len(step) # channels THEN Untouched("invalid_argument")
    ELSE IF getAvailableWrite < 1 THEN Untouched("false")
    ELSE Stored("true", [c \in 1 .. channels |-> <<step[c]>>], 1)

Push2D(step) ==
    /\ variant = "2D"
    /\ ret # "ub"
    /\ op' = "push"
    /\ out' = <<>>
    /\ UNCHANGED params
    /\ history' = "other"
    /\ LET a == PushResult2D(step)
       IN  /\ Becomes(a)
           /\ fifo' = IF a.count = 0 THEN fifo
                      ELSE FifoPut([c \in 1 .. channels |-> <<step[c]>>])
           /\ twin' = IF a.count = 0 THEN twin
                      ELSE TwinStored([c \in 1 .. channels |-> <<step[c]>>], 1)

(***************************************************************************)
(* prime                                                                   *)
(***************************************************************************)
PrimeTimeSteps ==
    LET target_time == SzAdd(SzMul(SzSub(minFrames, 1), hopSize), frameSize)
    IN  IF target_time > hopSize THEN SzSub(target_time, hopSize) ELSE 0

\* prime builds a block of PrimeTimeSteps copies of value and passes it to
\* write(), whose result it drops
PrimeResult(value) ==
    LET n == PrimeTimeSteps
    IN  IF n = 0 THEN Untouched("none")
        ELSE IF n > AllocLimit THEN Untouched("length_error")
        ELSE IF n > getAvailableWrite THEN Untouched("none")
        ELSE IF variant = "2D" /\ Overrun2D(n) THEN Untouched("ub")
        ELSE Stored("none", [c \in 1 .. channels |-> FillSlice(value, n)], n)

PrimeBody(value) ==
    LET a == PrimeResult(value)
    IN  /\ Becomes(a)
        /\ history' = IF available = 0 THEN "primed" ELSE "other"
        /\ fifo' = IF a.count = 0 THEN fifo
                   ELSE FifoPut([c \in 1 .. channels |-> FillSlice(value, a.count)])
        /\ twin' = IF a.count = 0 THEN twin
                   ELSE TwinStored([c \in 1 .. channels |->
                                       FillSlice(value, a.count)],
                                   a.count)

Prime3D(value) ==
    /\ variant = "3D"
    /\ ret # "ub"
    /\ op' = "prime"
    /\ out' = <<>>
    /\ UNCHANGED params
    /\ PrimeBody(value)

Prime2D(value) ==
    /\ variant = "2D"
    /\ ret # "ub"
    /\ op' = "prime"
    /\ out' = <<>>
    /\ UNCHANGED params
    /\ PrimeBody(value)

(***************************************************************************)
(* read                                                                    *)
(***************************************************************************)
\* count_to_read once the "read all" / "read n" choice is made
CountToRead(num_frames) ==
    IF num_frames = 0 THEN getAvailableFramesRead ELSE num_frames

\* total contiguous elements per channel that cover count frames
TotalSpan(count) == SzAdd(SzMul(SzSub(count, 1), hopSize), frameSize)

\* faulty variant: keepFrames is ignored
FramesConsumedAll(count) == count

FramesConsumed(count) == IF count > keepFrames THEN count - keepFrames ELSE 0

Consumed(count) == SzMul(FramesConsumed(count), hopSize)

\* the second memcpy of a 2D read would run past the end of the storage
Overread2D(total) ==
    total > capacity - readCursor /\ total - (capacity - readCursor) > capacity

\* what a read of total elements per channel copies out
Span(total) ==
    [c \in 1 .. channels |->
        IF variant = "3D" THEN CopyOut3D(storage[c], total, readCursor)
        ELSE CopyOut2D(storage[c], total, readCursor)]

\* read(buffer_out, num_frames): how it ends, buffer_out (passed in
\* empty), the buffer after it and the elements per channel it consumed
ReadResult(num_frames) ==
    LET fa == getAvailableFramesRead
        count == CountToRead(num_frames)
        Refused(r, o) == [Untouched(r) EXCEPT !.count = 0] @@ [out |-> o]
    IN  IF fa < minFrames THEN Refused("false", <<>>)
        ELSE IF num_frames # 0 /\ fa < num_frames THEN Refused("false", <<>>)
        ELSE IF count = 0 THEN Refused("false", <<>>)
        ELSE IF TotalSpan(count) > AllocLimit
        THEN Refused("length_error", [c \in 1 .. channels |-> <<>>])
        ELSE IF variant = "2D" /\ Overread2D(TotalSpan(count))
        THEN Refused("ub", Span(TotalSpan(count)))
        ELSE [ret |-> "true", storage |-> storage, writeCursor |-> writeCursor,
              readCursor |-> (readCursor + Consumed(count)) % capacity,
              available |-> SzSub(available, Consumed(count)),
              count |-> Consumed(count), out |-> Span(TotalSpan(count))]

ReadBody(num_frames) ==
    LET a == ReadResult(num_frames)
    IN  /\ Becomes(a)
        /\ out' = a.out
        /\ DebtBounded(a.available)
        /\ history' = HistoryAfterRead(num_frames, a.ret)
        /\ fifo' = FifoTake(a.count)
        /\ UNCHANGED twin

Read2D(num_frames) ==
    /\ variant = "2D"
    /\ ret # "ub"
    /\ op' = "read"
    /\ UNCHANGED params
    /\ ReadBody(num_frames)

Read3D(num_frames) ==
    /\ variant = "3D"
    /\ ret # "ub"
    /\ op' = "read"
    /\ UNCHANGED params
    /\ ReadBody(num_frames)

(***************************************************************************)
(* clear                                                                   *)
(***************************************************************************)
Clear ==
    /\ variant \in {"2D", "3D"}
    /\ ret # "ub"
    /\ op' = "clear"
    /\ ret' = "none"
    /\ out' = <<>>
    /\ writeCursor' = 0
    /\ readCursor' = 0
    /\ available' = 0
    /\ fifo' = EmptyFifo
    /\ twin' = NewStorage
    /\ history' = "other"
    /\ UNCHANGED <<params, storage>>

(***************************************************************************)
(* Construction.  The constructors accept channels > 0, capacity > 0,      *)
(* frame size <= capacity, hop size > 0 (and feature dim > 0 for 3D);      *)
(* min_frames and keep_frames are taken as given.  The storage is          *)
(* value-initialised.                                                      *)
(***************************************************************************)
ZeroElement == IF variant = "3D" THEN [f \in 1 .. featureDim |-> 0] ELSE 0

\* the constructor arguments the model explores, each
\* <<channels, capacity, frame size, hop size, min_frames, keep_frames>>:
\* overlapping, exact and gapped hops, a zero frame size, a frame as large
\* as the capacity, min_frames of 0, 1 and 2, keep_frames of 0 and 1
FramingShapes ==
    { <<1, 3, 2, 1, 1, 0>>, <<1, 3, 2, 1, 1, 1>>, <<1, 3, 1, 1, 2, 0>>,
      <<1, 3, 1, 2, 1, 0>>, <<1, 3, 3, 2, 1, 0>>, <<2, 2, 1, 1, 1, 0>>,
      <<2, 2, 2, 1, 1, 1>>, <<2, 2, 1, 2, 1, 1>>, <<2, 2, 0, 1, 1, 0>>,
      <<2, 2, 1, 1, 0, 0>>, <<2, 2, 1, 1, 2, 1>>, <<1, 2, 2, 2, 2, 0>> }

\* what the constructors accept
Accepted2D(ch, cap, frame, hop) ==
    ~(ch = 0 \/ cap = 0) /\ ~(frame > cap) /\ ~(hop = 0)

Accepted3D(ch, dim, cap, frame, hop) ==
    ~(ch = 0 \/ dim = 0 \/ cap = 0) /\ ~(frame > cap) /\ ~(hop = 0)

InitFraming ==
    /\ variant \in {"2D", "3D"}
    /\ \E sh \in FramingShapes :
          /\ channels = sh[1]
          /\ capacity = sh[2]
          /\ frameSize = sh[3]
          /\ hopSize = sh[4]
          /\ minFrames = sh[5]
          /\ keepFrames = sh[6]
    /\ featureDim = IF variant = "3D" THEN 1 ELSE 0
    /\ IF variant = "3D"
       THEN Accepted3D(channels, featureDim, capacity, frameSize, hopSize)
       ELSE Accepted2D(channels, capacity, frameSize, hopSize)
    /\ overlapSize = 0
    /\ storage = [c \in 1 .. channels |-> [p \in 0 .. (capacity - 1) |-> ZeroElement]]
    /\ writeCursor = 0
    /\ readCursor = 0
    /\ available = 0
    /\ op = "init"
    /\ ret = "none"
    /\ out = <<>>
    /\ fifo = EmptyFifo
    /\ twin = storage
    /\ history = "other"

NextFraming ==
    \/ \E call \in WriteCalls : Write2D(call[1], call[2], call[3])
    \/ \E call \in WriteCalls : Write3D(call[1], call[2], call[3])
    \/ \E step \in PushInputs : Push2D(step)
    \/ \E step \in PushInputs : Push3D(step)
    \/ \E value \in Vals : Prime2D(value)
    \/ \E value \in Vals : Prime3D(value)
    \/ \E num_frames \in 0 .. MaxNumFrames : Read2D(num_frames)
    \/ \E num_frames \in 0 .. MaxNumFrames : Read3D(num_frames)
    \/ Clear

\* the framing buffers alone
SpecFraming == InitFraming /\ [][NextFraming]_vars

(***************************************************************************)
(* OLARingBuffer2D.  Samples are fixed-point numbers, FixedOne units to    *)
(* the value 1.0; callers supply whole amplitudes.                         *)
(***************************************************************************)
FixedOne == 10 ^ 4

\* k of the crossfade curve, in units of 1 / FixedOne
CurveK == 14186

FxMul(a, b) == (a * b) \div FixedOne

\* amplitude gain at x (fixed point) of the way through the crossfade
crossfadeCurve(x) ==
    IF x <= 0 THEN 0
    ELSE IF x >= FixedOne THEN FixedOne
    ELSE LET v == FxMul(x, FixedOne - x)
             term == FxMul(v, FixedOne + FxMul(CurveK, v)) + x
         IN  FxMul(term, term)

\* m_crossfade_window[i], i in 0 .. overlapSize - 1
Window(i) == crossfadeCurve((i * FixedOne) \div overlapSize)

getAvailableSpaceWriteOLA == SzSub(capacity, available)

\* the frame count query divides by the frame size
getAvailableFramesReadOLA ==
    IF available < frameSize THEN 0 ELSE available \div frameSize

\* extra input lengths beyond twice the overlap that callers use
OlaBlocks ==
    { Block(seed, channels, [c \in 1 .. channels |-> n], {}) :
        seed \in 0 .. 1,
        n \in {0} \cup { 2 * overlapSize + d : d \in 0 .. MaxLen } }

\* a later channel shorter or longer than channel 0
OlaRaggedBlocks ==
    IF channels < 2 THEN {}
    ELSE { Block(0, channels,
                 [c \in 1 .. channels |->
                     IF c = channels THEN 2 * overlapSize + 1 + d
                     ELSE 2 * overlapSize + 2], {}) : d \in {0, 2} }

\* blocks of one constant non-zero amplitude, as the crossfade tests write
OlaConstantBlocks ==
    IF variant # "OLA" THEN {}
    ELSE { [c \in 1 .. channels |-> [t \in 1 .. n |-> amp]] :
             amp \in Vals \ {0},
             n \in { 2 * overlapSize + d : d \in 1 .. MaxLen } }

OlaWriteInputs ==
    OlaBlocks \cup OlaConstantBlocks \cup OlaRaggedBlocks \cup WrongChannelBlocks

\* the history after an OLA write of data that ended with r: "constant"
\* when a block of one constant amplitude has just been spliced in
HistoryAfterOlaWrite(data, r) ==
    IF r = "true" /\ data \in OlaConstantBlocks THEN "constant"
    ELSE IF r = "true" /\ Len(data) # 0 THEN "other"
    ELSE history

\* faulty variant: a block that fills the free space exactly is refused
OlaWriteOutcomeStrict(data) ==
    IF Len(data) = 0 THEN [ret |-> "true", net |-> 0]
    ELSE IF Len(data) # channels THEN [ret |-> "invalid_argument", net |-> 0]
    ELSE LET input_len == Len(data[1])
             net_advance == SzSub(input_len, overlapSize)
         IN  IF input_len <= SzMul(2, overlapSize)
             THEN [ret |-> "false", net |-> 0]
             ELSE IF SzAdd(available, net_advance) >= capacity
             THEN [ret |-> "false", net |-> 0]
             ELSE IF \E c \in 2 .. channels : Len(data[c]) < input_len
             THEN [ret |-> "ub", net |-> 0]
             ELSE [ret |-> "true", net |-> net_advance]

\* how write(data_in) ends in the current state, and the net advance
OlaWriteOutcome(data) ==
    IF Len(data) = 0 THEN [ret |-> "true", net |-> 0]
    ELSE IF Len(data) # channels THEN [ret |-> "invalid_argument", net |-> 0]
    ELSE LET input_len == Len(data[1])
             net_advance == SzSub(input_len, overlapSize)
         IN  IF input_len <= SzMul(2, overlapSize)
             THEN [ret |-> "false", net |-> 0]
             ELSE IF SzAdd(available, net_advance) > capacity
             THEN [ret |-> "false", net |-> 0]
             ELSE IF \E c \in 2 .. channels : Len(data[c]) < input_len
             THEN [ret |-> "ub", net |-> 0]
             ELSE [ret |-> "true", net |-> net_advance]

\* faulty variant: the block is stored at half gain, without a crossfade
SpliceAttenuated(buf, src, input_len, wpos) ==
    LET At(p) == {i \in 0 .. (input_len - 1) : (wpos + i) % capacity = p}
    IN  [p \in 0 .. (capacity - 1) |->
            IF At(p) = {} THEN buf[p]
            ELSE src[(CHOOSE i \in At(p) : \A j \in At(p) : j <= i) + 1]
                     * (FixedOne \div 2)]

\* the crossfaded splice of one channel: part A adds the faded-in head to
\* what is stored, part B then overwrites with the body and the faded-out
\* tail, position by position in increasing i
Splice(buf, src, input_len, wpos) ==
    LET remaining_len == input_len - overlapSize
        body_start == (wpos + overlapSize) % capacity
        PartA(p) == {i \in 0 .. (overlapSize - 1) : (wpos + i) % capacity = p}
        PartB(p) == {i \in 0 .. (remaining_len - 1) :
                        (body_start + i) % capacity = p}
        FadeIn(i) == src[i + 1] * Window(i)
        Body(i) ==
            LET input_idx == overlapSize + i
                samples_from_end == input_len - 1 - input_idx
            IN  IF samples_from_end < overlapSize
                THEN src[input_idx + 1] * Window(samples_from_end)
                ELSE src[input_idx + 1] * FixedOne
        RECURSIVE Sum(_)
        Sum(S) == IF S = {} THEN 0
                  ELSE LET i == CHOOSE i \in S : TRUE
                       IN  FadeIn(i) + Sum(S \ {i})
    IN  [p \in 0 .. (capacity - 1) |->
            IF PartB(p) # {}
            THEN Body(CHOOSE i \in PartB(p) : \A j \in PartB(p) : j <= i)
            ELSE buf[p] + Sum(PartA(p))]

\* faulty variant: the indices advance by the whole block, tail included
OlaWriteResultWholeBlock(data) ==
    LET o == OlaWriteOutcome(data)
    IN  IF o.ret = "true" /\ Len(data) # 0
        THEN [ret |-> "true",
              storage |-> [c \in 1 .. channels |->
                              Splice(storage[c], data[c], Len(data[1]),
                                     writeCursor)],
              writeCursor |-> (writeCursor + Len(data[1])) % capacity,
              readCursor |-> readCursor,
              available |-> SzAdd(available, Len(data[1])),
              count |-> Len(data[1])]
        ELSE Untouched(o.ret)

\* what write(data_in) leaves behind: the splice and the index update of
\* a successful write, the buffer as it was otherwise
OlaWriteResult(data) ==
    LET o == OlaWriteOutcome(data)
    IN  IF o.ret = "true" /\ Len(data) # 0
        THEN [ret |-> "true",
              storage |-> [c \in 1 .. channels |->
                              Splice(storage[c], data[c], Len(data[1]),
                                     writeCursor)],
              writeCursor |-> (writeCursor + o.net) % capacity,
              readCursor |-> readCursor,
              available |-> SzAdd(available, o.net),
              count |-> o.net]
        ELSE Untouched(o.ret)

OlaWrite(data) ==
    /\ variant = "OLA"
    /\ ret # "ub"
    /\ op' = "write"
    /\ out' = <<>>
    /\ UNCHANGED params
    /\ LET a == OlaWriteResult(data)
       IN  /\ Becomes(a)
           /\ history' = HistoryAfterOlaWrite(data, a.ret)
           /\ fifo' = IF overlapSize = 0 /\ a.count > 0
                      THEN FifoPut([c \in 1 .. channels |->
                                       Slice(data, c, 0, a.count)])
                      ELSE fifo
           /\ twin' = a.storage

\* faulty variant: a frame that is only partly there counts as available
OlaReadOutcomePartial(num_frames) ==
    IF frameSize = 0 THEN "ub"
    ELSE LET available_frames == (available + frameSize - 1) \div frameSize
             count == IF num_frames = 0 THEN available_frames ELSE num_frames
         IN  IF count = 0 \/ available_frames < count THEN "false"
             ELSE IF SzMul(count, frameSize) > AllocLimit THEN "length_error"
             ELSE "true"

\* how read(buffer_out, num_frames) ends in the current state
OlaReadOutcome(num_frames) ==
    IF frameSize = 0 THEN "ub"
    ELSE LET available_frames == getAvailableFramesReadOLA
             count == IF num_frames = 0 THEN available_frames ELSE num_frames
         IN  IF count = 0 \/ available_frames < count THEN "false"
             ELSE IF SzMul(count, frameSize) > AllocLimit THEN "length_error"
             ELSE "true"

\* faulty variant: the read head advances by one frame however many
\* frames were read
OlaReadResultOneFrame(num_frames) ==
    LET r == OlaReadOutcome(num_frames)
    IN  IF r = "true"
        THEN LET count == IF num_frames = 0 THEN getAvailableFramesReadOLA
                          ELSE num_frames
                 total_samples == SzMul(count, frameSize)
             IN  [ret |-> "true", storage |-> storage,
                  writeCursor |-> writeCursor,
                  readCursor |-> (readCursor + hopSize) % capacity,
                  available |-> SzSub(available, hopSize),
                  count |-> count,
                  out |-> [c \in 1 .. channels |->
                              CopyOut2D(storage[c], total_samples, readCursor)]]
        ELSE [ret |-> r, storage |-> storage, writeCursor |-> writeCursor,
              readCursor |-> readCursor, available |-> available, count |-> 0,
              out |-> IF r = "length_error"
                      THEN [c \in 1 .. channels |-> <<>>] ELSE <<>>]

\* faulty variant: the read head advances but available is not lowered
OlaReadResultStaleCount(num_frames) ==
    LET r == OlaReadOutcome(num_frames)
    IN  IF r = "true"
        THEN LET count == IF num_frames = 0 THEN getAvailableFramesReadOLA
                          ELSE num_frames
                 total_samples == SzMul(count, frameSize)
                 advance == SzMul(count, hopSize)
             IN  [ret |-> "true", storage |-> storage,
                  writeCursor |-> writeCursor,
                  readCursor |-> (readCursor + advance) % capacity,
                  available |-> available,
                  count |-> count,
                  out |-> [c \in 1 .. channels |->
                              CopyOut2D(storage[c], total_samples, readCursor)]]
        ELSE [ret |-> r, storage |-> storage, writeCursor |-> writeCursor,
              readCursor |-> readCursor, available |-> available, count |-> 0,
              out |-> IF r = "length_error"
                      THEN [c \in 1 .. channels |-> <<>>] ELSE <<>>]

\* what read(buffer_out, num_frames) leaves behind, and buffer_out
OlaReadResult(num_frames) ==
    LET r == OlaReadOutcome(num_frames)
    IN  IF r = "true"
        THEN LET count == IF num_frames = 0 THEN getAvailableFramesReadOLA
                          ELSE num_frames
                 total_samples == SzMul(count, frameSize)
                 advance == SzMul(count, hopSize)
             IN  [ret |-> "true", storage |-> storage,
                  writeCursor |-> writeCursor,
                  readCursor |-> (readCursor + advance) % capacity,
                  available |-> SzSub(available, advance),
                  count |-> count,
                  out |-> [c \in 1 .. channels |->
                              CopyOut2D(storage[c], total_samples, readCursor)]]
        ELSE [ret |-> r, storage |-> storage, writeCursor |-> writeCursor,
              readCursor |-> readCursor, available |-> available, count |-> 0,
              out |-> IF r = "length_error"
                      THEN [c \in 1 .. channels |-> <<>>] ELSE <<>>]

OlaRead(num_frames) ==
    /\ variant = "OLA"
    /\ ret # "ub"
    /\ op' = "read"
    /\ UNCHANGED <<params, history>>
    /\ LET a == OlaReadResult(num_frames)
       IN  /\ Becomes(a)
           /\ out' = a.out
           /\ fifo' = IF overlapSize = 0 /\ a.ret = "true"
                      THEN FifoTake(a.count * hopSize)
                      ELSE fifo
           /\ twin' = a.storage

\* faulty variant: the whole channel is zeroed
SilencedWhole(buf, wpos) == [p \in 0 .. (capacity - 1) |-> 0]

\* one channel after the overlapSize samples from wpos on are zeroed
Silenced(buf, wpos) ==
    [p \in 0 .. (capacity - 1) |->
        IF \E i \in 0 .. (overlapSize - 1) : (wpos + i) % capacity = p
        THEN 0 ELSE buf[p]]

primeWithSilence ==
    /\ variant = "OLA"
    /\ ret # "ub"
    /\ op' = "primeWithSilence"
    /\ ret' = "none"
    /\ out' = <<>>
    /\ storage' = [c \in 1 .. channels |-> Silenced(storage[c], writeCursor)]
    /\ twin' = storage'
    /\ history' = "other"
    /\ UNCHANGED <<params, cursors, fifo>>

OlaClear ==
    /\ variant = "OLA"
    /\ ret # "ub"
    /\ op' = "clear"
    /\ ret' = "none"
    /\ out' = <<>>
    /\ writeCursor' = 0
    /\ readCursor' = 0
    /\ available' = 0
    /\ storage' = [c \in 1 .. channels |-> [p \in 0 .. (capacity - 1) |-> 0]]
    /\ fifo' = EmptyFifo
    /\ twin' = storage'
    /\ history' = "other"
    /\ UNCHANGED params

\* the constructor arguments the model explores, each
\* <<channels, capacity, frame size, overlap size>>
OlaShapes ==
    { <<1, 4, 2, 1>>, <<2, 3, 1, 0>>, <<1, 6, 3, 2>>, <<1, 3, 0, 0>>,
      <<2, 2, 2, 1>>, <<1, 2, 1, 2>>, <<1, 5, 2, 2>> }

AcceptedOLA(ch, cap, frame) == ~(ch = 0 \/ cap = 0) /\ ~(frame > cap)

InitOLA ==
    /\ variant = "OLA"
    /\ \E sh \in OlaShapes :
          /\ channels = sh[1]
          /\ capacity = sh[2]
          /\ frameSize = sh[3]
          /\ overlapSize = sh[4]
    /\ AcceptedOLA(channels, capacity, frameSize)
    /\ hopSize = frameSize
    /\ minFrames = 0
    /\ keepFrames = 0
    /\ featureDim = 0
    /\ storage = [c \in 1 .. channels |-> [p \in 0 .. (capacity - 1) |-> 0]]
    /\ writeCursor = 0
    /\ readCursor = 0
    /\ available = 0
    /\ op = "init"
    /\ ret = "none"
    /\ out = <<>>
    /\ fifo = EmptyFifo
    /\ twin = storage
    /\ history = "other"

NextOLA ==
    \/ \E data \in OlaWriteInputs : OlaWrite(data)
    \/ \E num_frames \in 0 .. MaxNumFrames : OlaRead(num_frames)
    \/ primeWithSilence
    \/ OlaClear

\* the overlap-add buffer alone
SpecOLA == InitOLA /\ [][NextOLA]_vars

(***************************************************************************)
(* All three classes.                                                      *)
(***************************************************************************)
Init == InitFraming \/ InitOLA

Next == NextFraming \/ NextOLA

Spec == Init /\ [][Next]_vars

(***************************************************************************)
(* Properties.                                                             *)
(***************************************************************************)
Framing == variant \in {"2D", "3D"}

\* C1: in every reachable state of a framing buffer, 0 <= available <=
\* capacity, both cursors lie in [0, capacity), and writeCursor is
\* available positions ahead of readCursor modulo capacity
C1_IndexInvariant ==
    Framing =>
        /\ 0 <= available /\ available <= capacity
        /\ writeCursor \in 0 .. (capacity - 1)
        /\ readCursor \in 0 .. (capacity - 1)
        /\ writeCursor = (readCursor + available) % capacity

\* write and push of whichever framing class the instance is
WriteResult(call) ==
    IF variant = "3D" THEN WriteResult3D(call[1], call[2], call[3])
    ELSE WriteResult2D(call[1], call[2], call[3])

PushResult(step) ==
    IF variant = "3D" THEN PushResult3D(step) ELSE PushResult2D(step)

\* the buffer a call leaves behind is the buffer it found
LeavesBuffer(a) ==
    /\ a.storage = storage
    /\ a.writeCursor = writeCursor
    /\ a.readCursor = readCursor
    /\ a.available = available

ShapeErrors == {"invalid_argument", "out_of_range"}

\* the frame count as the specification gives it, in unbounded integers
FramesAvailable ==
    IF available < frameSize THEN 0
    ELSE 1 + (available - frameSize) \div hopSize

\* the shape of a call write(data, offset, num), in unbounded integers
CountOf(call) ==
    IF call[3] = 0 THEN Len(call[1][1]) - call[2] ELSE call[3]

WrongChannelCount(data) == Len(data) # channels

UnequalSlices(data) ==
    \E c, d \in 1 .. Len(data) : Len(data[c]) # Len(data[d])

OutOfBounds(call) ==
    /\ Len(call[1]) > 0
    /\ \/ call[2] >= Len(call[1][1]) /\ Len(call[1][1]) > 0
       \/ call[2] + CountOf(call) > Len(call[1][1])

\* a time step of the written slice has not featureDim entries
WrongFeatureDim(call) ==
    /\ variant = "3D"
    /\ Len(call[1]) > 0
    /\ \E c \in 1 .. Len(call[1]) :
          \E t \in (call[2] + 1) .. (call[2] + CountOf(call)) :
              t <= Len(call[1][c]) /\ Len(call[1][c][t]) # featureDim

ValidShape(call) ==
    /\ ~WrongChannelCount(call[1])
    /\ ~UnequalSlices(call[1])
    /\ ~OutOfBounds(call)
    /\ ~WrongFeatureDim(call)

\* C2: after successful writes onto an empty framing buffer that yield at
\* least minFrames frames (and at least one), read(out, 0) succeeds and
\* element j of every channel of the returned span is the j-th element
\* written to that channel
C2_RoundTrip ==
    (Framing /\ history = "filling" /\ FramesAvailable >= minFrames
        /\ FramesAvailable >= 1) =>
        LET a == ReadResult(0)
            span == (FramesAvailable - 1) * hopSize + frameSize
        IN  /\ a.ret = "true"
            /\ \A c \in 1 .. channels :
                  /\ Len(fifo[c]) = available
                  /\ available <= capacity
                  /\ Len(a.out[c]) = span
                  /\ \A j \in 1 .. span :
                        j <= Len(fifo[c]) /\ a.out[c][j] = fifo[c][j]

\* C2 witness: a read of every frame has just returned at least two
\* distinct elements written since the buffer was empty
C2_Witness ==
    /\ Framing
    /\ history = "roundtrip"
    /\ op = "read" /\ ret = "true"
    /\ Len(out[1]) >= 2
    /\ out[1][1] # out[1][2]

\* C3: every successful read of a framing buffer returns what the
\* unbounded reference queue holds: element j of the span is the j-th
\* element written and not yet consumed
C3_WrapTransparency ==
    Framing =>
        \A n \in 0 .. MaxNumFrames :
            LET a == ReadResult(n)
            IN  a.ret = "true" =>
                    \A c \in 1 .. channels :
                        \A j \in 1 .. Len(a.out[c]) :
                            j <= Len(fifo[c]) /\ a.out[c][j] = fifo[c][j]

\* C4: a framing-buffer write of a validly shaped block with
\* 1 <= count <= capacity - available returns true, stores the count
\* elements of every channel at writeCursor, writeCursor + 1, ... modulo
\* capacity, advances writeCursor by count modulo capacity, increases
\* available by count and leaves readCursor and every other slot alone
C4_WriteEffect ==
    Framing =>
        \A call \in WriteCalls :
            (ValidShape(call) /\ CountOf(call) >= 1
                /\ CountOf(call) <= capacity - available) =>
                LET a == WriteResult(call)
                    n == CountOf(call)
                    At(p) == {i \in 0 .. (n - 1) : (writeCursor + i) % capacity = p}
                IN  /\ a.ret = "true"
                    /\ a.writeCursor = (writeCursor + n) % capacity
                    /\ a.available = available + n
                    /\ a.readCursor = readCursor
                    /\ \A c \in 1 .. channels : \A p \in 0 .. (capacity - 1) :
                          IF At(p) = {} THEN a.storage[c][p] = storage[c][p]
                          ELSE \A i \in At(p) :
                                  a.storage[c][p] = call[1][c][call[2] + i + 1]

\* C4 witness: a write has just succeeded and the stored elements reach
\* across the physical end of the storage
C4_Witness ==
    /\ Framing
    /\ op = "write" /\ ret = "true"
    /\ frameSize >= 1 /\ hopSize <= frameSize
    /\ available >= 2 /\ available <= capacity
    /\ writeCursor <= readCursor
    /\ writeCursor > 0

\* C5: a framing-buffer write of a validly shaped block returns false
\* exactly when count > capacity - available, never raises, and a false
\* return leaves cursors, available and storage as they were
C5_FalseIffNoSpace ==
    Framing =>
        \A call \in WriteCalls :
            ValidShape(call) =>
                LET a == WriteResult(call)
                IN  /\ a.ret \in {"true", "false"}
                    /\ a.ret = "false" <=> CountOf(call) > capacity - available
                    /\ a.ret = "false" => LeavesBuffer(a)

\* C6: a framing-buffer write raises invalid_argument for a wrong channel
\* count, unequal slice lengths or (3D) a written step of the wrong
\* feature dimension, and out_of_range for an offset or offset + count
\* beyond the input; neither is reported as a boolean
C6_ShapeErrorKinds ==
    Framing =>
        \A call \in WriteCalls :
            LET a == WriteResult(call)
                dimension == WrongChannelCount(call[1]) \/ UnequalSlices(call[1])
                                \/ WrongFeatureDim(call)
                bounds == OutOfBounds(call)
            IN  /\ (dimension /\ ~bounds) => a.ret = "invalid_argument"
                /\ (bounds /\ ~dimension) => a.ret = "out_of_range"
                /\ (dimension /\ bounds) => a.ret \in ShapeErrors

\* C7: whenever write or push on a framing buffer raises a shape error,
\* cursors, available and every storage slot are as before the call
C7_ValidationBeforeMutation ==
    Framing =>
        /\ \A call \in WriteCalls :
              WriteResult(call).ret \in ShapeErrors => LeavesBuffer(WriteResult(call))
        /\ \A step \in PushInputs :
              PushResult(step).ret \in ShapeErrors => LeavesBuffer(PushResult(step))

\* C8: a write or push whose input has the wrong channel count or a wrong
\* per-channel feature dimension raises a shape error whatever the free
\* space, also on a full buffer; it is never answered with false
C8_ShapeBeforeCapacity ==
    Framing =>
        /\ \A call \in WriteCalls :
              (WrongChannelCount(call[1]) \/ WrongFeatureDim(call)) =>
                  WriteResult(call).ret \in ShapeErrors
        /\ \A step \in PushInputs :
              (\/ Len(step) # channels
               \/ variant = "3D" /\ \E c \in 1 .. Len(step) : Len(step[c]) # featureDim) =>
                  PushResult(step).ret \in ShapeErrors

\* C9: getAvailableFramesRead() of a framing buffer is 0 when available <
\* frameSize and 1 + floor((available - frameSize) / hopSize) otherwise;
\* that of the OLA buffer is floor(available / frameSize)
C9_FramesFormula ==
    /\ Framing => getAvailableFramesRead = FramesAvailable
    /\ (variant = "OLA" /\ frameSize # 0) =>
           getAvailableFramesReadOLA = available \div frameSize

\* C10: a framing-buffer read returns false and leaves cursors, available
\* and storage unchanged whenever framesAvailable < minFrames (ready() is
\* false), for every numFrames, and whenever numFrames > framesAvailable;
\* framesAvailable is taken both as the formula and as the query gives it
C10_ReadRefused ==
    Framing =>
        \A n \in 0 .. MaxNumFrames :
            (\/ FramesAvailable < minFrames
             \/ ~ready
             \/ n > FramesAvailable
             \/ n > getAvailableFramesRead) =>
                LET a == ReadResult(n)
                IN  a.ret = "false" /\ LeavesBuffer(a) /\ a.out = <<>>

\* C10 witness: a read asking for more frames than a ready buffer holds
\* has just been refused
C10_Witness ==
    /\ Framing
    /\ op = "read" /\ ret = "false"
    /\ frameSize >= 1 /\ hopSize <= frameSize
    /\ FramesAvailable >= 1 /\ FramesAvailable >= minFrames

\* C11: on a framing buffer with minFrames >= 1, read(out, 0) returns true
\* in every state where framesAvailable >= minFrames (ready() is true),
\* and returns (framesAvailable - 1) * hopSize + frameSize elements per
\* channel
C11_ReadAllSucceeds ==
    (Framing /\ minFrames >= 1 /\ (ready \/ FramesAvailable >= minFrames)) =>
        LET a == ReadResult(0)
        IN  /\ a.ret = "true"
            /\ Len(a.out) = channels
            /\ \A c \in 1 .. Len(a.out) :
                  Len(a.out[c]) = (FramesAvailable - 1) * hopSize + frameSize

\* the frames a call read(out, n) reads
FramesRead(n) == IF n = 0 THEN getAvailableFramesRead ELSE n

C13_ReadConsumes ==
    Framing =>
        \A n \in 0 .. MaxNumFrames :
            LET a == ReadResult(n)
                framesConsumed == IF FramesRead(n) > keepFrames
                                  THEN FramesRead(n) - keepFrames ELSE 0
            IN  a.ret = "true" =>
                    /\ a.readCursor = (readCursor + framesConsumed * hopSize) % capacity
                    /\ a.available = available - framesConsumed * hopSize
                    /\ a.writeCursor = writeCursor
                    /\ a.storage = storage

\* C14: on a framing buffer with keepFrames = k a successful read of at
\* most k frames leaves available, both cursors and storage unchanged, so
\* the same read repeated returns the same span
C14_PeekIdempotent ==
    Framing =>
        \A n \in 0 .. MaxNumFrames :
            LET a == ReadResult(n)
            IN  (a.ret = "true" /\ FramesRead(n) <= keepFrames) =>
                    LeavesBuffer(a)

\* C14 witness: a read of one frame on a buffer that keeps one frame has
\* just succeeded, and the same read would return the same span again
C14_Witness ==
    /\ Framing
    /\ op = "read" /\ ret = "true"
    /\ frameSize >= 1 /\ hopSize <= frameSize /\ keepFrames >= 1
    /\ Len(out[1]) = frameSize
    /\ available >= frameSize /\ available <= capacity
    /\ ReadResult(1).ret = "true"
    /\ ReadResult(1).out = out
    /\ LeavesBuffer(ReadResult(1))

\* C15: a write that succeeds stores exactly the elements
\* data[c][offset .. offset + count - 1] of each channel, in order, each in
\* a slot of its own from writeCursor on; count = 0 stands for
\* inputLen - offset; no other element of data enters the buffer
C15_WriteSlice ==
    Framing =>
        \A call \in WriteCalls :
            LET a == WriteResult(call)
                n == CountOf(call)
                At(p) == {i \in 0 .. (n - 1) : (writeCursor + i) % capacity = p}
            IN  (a.ret = "true" /\ Len(call[1]) > 0) =>
                    /\ a.count = n
                    /\ \A c \in 1 .. channels : \A p \in 0 .. (capacity - 1) :
                          /\ Cardinality(At(p)) <= 1
                          /\ IF At(p) = {} THEN a.storage[c][p] = storage[c][p]
                             ELSE \A i \in At(p) :
                                     a.storage[c][p] = call[1][c][call[2] + i + 1]

\* the outcome of a call as the specification classes it
Outcome(a) == IF a.ret \in ShapeErrors THEN "shape_error" ELSE a.ret

\* the one-element block a push of step stands for
OneElementBlock(step) == [c \in 1 .. Len(step) |-> <<step[c]>>]

\* C16: push(e) gives the same outcome and leaves the same cursors,
\* available and storage as write of the one-element block holding e; a
\* successful push adds 1 to available and advances writeCursor by 1 mod
\* capacity; push on a full buffer returns false and changes nothing
C16_PushIsWriteOne ==
    Framing =>
        \A step \in PushInputs :
            LET p == PushResult(step)
                w == WriteResult(<<OneElementBlock(step), 0, 1>>)
            IN  /\ Outcome(p) = Outcome(w)
                /\ p.storage = w.storage
                /\ p.writeCursor = w.writeCursor
                /\ p.readCursor = w.readCursor
                /\ p.available = w.available
                /\ p.ret = "true" =>
                      /\ p.available = available + 1
                      /\ p.writeCursor = (writeCursor + 1) % capacity
                /\ (isFull /\ Len(step) = channels) =>
                      (p.ret = "false" /\ LeavesBuffer(p))

\* the number of elements prime() is to add, as the specification gives it
Need ==
    LET d == (minFrames - 1) * hopSize + frameSize - hopSize
    IN  IF d > 0 THEN d ELSE 0

\* C17: prime(fillValue) always succeeds on a validly constructed buffer:
\* available grows by need = max(0, (minFrames - 1) * hopSize + frameSize
\* - hopSize), writeCursor advances by need mod capacity, and the need
\* newly written elements of every channel equal fillValue
C17_PrimeFills ==
    (Framing /\ minFrames >= 1) =>
        \A value \in Vals :
            LET a == PrimeResult(value)
            IN  /\ a.ret = "none"
                /\ a.available = available + Need
                /\ a.writeCursor = (writeCursor + Need) % capacity
                /\ \A c \in 1 .. channels : \A i \in 0 .. (Need - 1) :
                      a.storage[c][(writeCursor + i) % capacity]
                          = FillSlice(value, 1)[1]

\* the writes of exactly hopSize well-shaped elements
HopWrites == {call \in WriteCalls : ValidShape(call) /\ CountOf(call) = hopSize}

\* C18: after prime() on an empty buffer ready() is false, and one
\* following write of exactly hopSize elements succeeds and makes ready()
\* true with exactly minFrames frames available
C18_PrimeThenHopReady ==
    (Framing /\ history = "primed") =>
        /\ ~ready
        /\ \A call \in HopWrites :
              LET a == WriteResult(call)
              IN  /\ a.ret = "true"
                  /\ FramesOf(a.available, frameSize, hopSize) = minFrames
                  /\ FramesOf(a.available, frameSize, hopSize) >= minFrames

\* C19: clear() sets writeCursor, readCursor and available to 0, so that
\* the buffer is empty, holds 0 frames and has capacity free elements; no
\* parameter changes; a framing buffer keeps its storage and the OLA
\* buffer has every storage sample of every channel set to zero (a frame
\* count that is a division by zero is no count of 0)
C19_ClearResets ==
    [][op' = "clear" =>
          /\ writeCursor' = 0 /\ readCursor' = 0 /\ available' = 0
          /\ isEmpty'
          /\ params' = params
          /\ Framing =>
                /\ getAvailableFramesRead' = 0
                /\ getAvailableWrite' = capacity
                /\ storage' = storage
          /\ variant = "OLA" =>
                /\ frameSize # 0
                /\ getAvailableFramesReadOLA' = 0
                /\ getAvailableSpaceWriteOLA' = capacity
                /\ \A c \in 1 .. channels : \A p \in 0 .. (capacity - 1) :
                      storage'[c][p] = 0]_vars

\* the constructor arguments the specification calls invalid
InvalidArguments(ch, dim, cap, frame, hop, minf) ==
    ch = 0 \/ dim = 0 \/ cap = 0 \/ frame > cap \/ hop = 0 \/ minf < 1

\* C20: construction refuses channels = 0, capacity = 0, frameSize >
\* capacity, hopSize = 0, featureDim = 0 (3D) and minFrames < 1, so no
\* buffer exists with such parameters (the OLA buffer takes neither a hop
\* size nor minFrames)
C20_ConstructorRejects ==
    /\ \A ch, cap, frame, hop, minf \in 0 .. MaxLen :
          /\ InvalidArguments(ch, 1, cap, frame, hop, minf) =>
                ~Accepted2D(ch, cap, frame, hop)
          /\ \A dim \in 0 .. 1 :
                InvalidArguments(ch, dim, cap, frame, hop, minf) =>
                    ~Accepted3D(ch, dim, cap, frame, hop)
          /\ InvalidArguments(ch, 1, cap, frame, 1, 1) =>
                ~AcceptedOLA(ch, cap, frame)
    /\ Framing =>
          ~InvalidArguments(channels, IF variant = "3D" THEN featureDim ELSE 1,
                            capacity, frameSize, hopSize, minFrames)
    /\ variant = "OLA" => ~InvalidArguments(channels, 1, capacity, frameSize, 1, 1)

\* C21: an OLA write with the right channel count returns false, raising
\* nothing, when inputLen <= 2 * overlapSize or available + (inputLen -
\* overlapSize) > capacity, and then leaves cursors, available and storage
\* as they were; a rectangular block longer than 2 * overlapSize whose net
\* advance fills the free space exactly is accepted
C21_OlaWriteRejection ==
    variant = "OLA" =>
        \A data \in OlaWriteInputs :
            Len(data) = channels =>
                LET a == OlaWriteResult(data)
                    inputLen == Len(data[1])
                    netAdvance == inputLen - overlapSize
                IN  /\ (inputLen <= 2 * overlapSize
                           \/ available + netAdvance > capacity) =>
                          (a.ret = "false" /\ LeavesBuffer(a))
                    /\ (inputLen > 2 * overlapSize
                           /\ available + netAdvance = capacity
                           /\ ~UnequalSlices(data)) =>
                          a.ret = "true"

\* C21 witness: a block that filled the free space exactly has just been
\* accepted, and the buffer, now full, refuses a longer-than-2-overlap block
C21_Witness ==
    /\ variant = "OLA"
    /\ op = "write" /\ ret = "true"
    /\ overlapSize >= 1 /\ frameSize >= 1
    /\ available = capacity
    /\ \E data \in OlaWriteInputs :
          /\ Len(data) = channels
          /\ Len(data[1]) > 2 * overlapSize
          /\ OlaWriteResult(data).ret = "false"

\* C22: a successful OLA write of inputLen samples advances writeCursor
\* (mod capacity) and available by netAdvance = inputLen - overlapSize and
\* leaves readCursor alone; the last overlapSize samples of the block are
\* stored, faded out, from the new writeCursor on and are not counted in
\* available
C22_OlaWriteAdvance ==
    variant = "OLA" =>
        \A data \in OlaWriteInputs :
            LET a == OlaWriteResult(data)
            IN  (a.ret = "true" /\ Len(data) = channels) =>
                    LET inputLen == Len(data[1])
                        netAdvance == inputLen - overlapSize
                    IN  /\ a.writeCursor = (writeCursor + netAdvance) % capacity
                        /\ a.available = available + netAdvance
                        /\ a.readCursor = readCursor
                        /\ \A c \in 1 .. channels : \A k \in 0 .. (overlapSize - 1) :
                              a.storage[c][(a.writeCursor + k) % capacity] =
                                  data[c][netAdvance + k + 1]
                                      * Window(overlapSize - 1 - k)

\* C22 witness: a write has just succeeded on a buffer with a two-sample
\* overlap; a faded sample of its tail lies at the write cursor, beyond
\* the samples that are counted
C22_Witness ==
    /\ variant = "OLA"
    /\ op = "write" /\ ret = "true"
    /\ overlapSize >= 2 /\ frameSize >= 1
    /\ available >= 1 /\ available + overlapSize <= capacity
    /\ \E k \in 0 .. (overlapSize - 1) :
          /\ storage[1][(writeCursor + k) % capacity] > 0
          /\ storage[1][(writeCursor + k) % capacity] < FixedOne

\* C23: a successful OLA write changes storage exactly so, W being the old
\* writeCursor: for i in [0, overlapSize) the sample at (W + i) mod
\* capacity becomes its old value plus input[i] * window[i]; for i in
\* [overlapSize, inputLen) the sample at (W + i) mod capacity becomes
\* input[i], times window[inputLen - 1 - i] when inputLen - 1 - i <
\* overlapSize; no other position changes
C23_OlaSpliceContent ==
    variant = "OLA" =>
        \A data \in OlaWriteInputs :
            LET a == OlaWriteResult(data)
            IN  (a.ret = "true" /\ Len(data) = channels) =>
                    LET inputLen == Len(data[1])
                    IN  \A c \in 1 .. channels :
                           /\ \A i \in 0 .. (overlapSize - 1) :
                                 a.storage[c][(writeCursor + i) % capacity] =
                                     storage[c][(writeCursor + i) % capacity]
                                         + data[c][i + 1] * Window(i)
                           /\ \A i \in overlapSize .. (inputLen - 1) :
                                 a.storage[c][(writeCursor + i) % capacity] =
                                     IF inputLen - 1 - i < overlapSize
                                     THEN data[c][i + 1] * Window(inputLen - 1 - i)
                                     ELSE data[c][i + 1] * FixedOne
                           /\ \A p \in 0 .. (capacity - 1) :
                                 (\A i \in 0 .. (inputLen - 1) :
                                     (writeCursor + i) % capacity # p) =>
                                    a.storage[c][p] = storage[c][p]

\* C24: a successful OLA read of n frames (n = numFrames, or
\* floor(available / frameSize) for numFrames = 0) returns for every
\* channel the n * frameSize samples stored from readCursor on, wrapping
\* mod capacity, advances readCursor by n * frameSize mod capacity, lowers
\* available by n * frameSize and leaves writeCursor and storage alone
C24_OlaReadFrames ==
    variant = "OLA" =>
        \A numFrames \in 0 .. MaxNumFrames :
            LET a == OlaReadResult(numFrames)
            IN  a.ret = "true" =>
                    LET n == IF numFrames = 0 THEN available \div frameSize
                             ELSE numFrames
                    IN  /\ Len(a.out) = channels
                        /\ \A c \in 1 .. channels :
                              /\ Len(a.out[c]) = n * frameSize
                              /\ \A j \in 0 .. (n * frameSize - 1) :
                                    a.out[c][j + 1] =
                                        storage[c][(readCursor + j) % capacity]
                        /\ a.readCursor = (readCursor + n * frameSize) % capacity
                        /\ a.available = available - n * frameSize
                        /\ a.writeCursor = writeCursor
                        /\ a.storage = storage

\* C24 witness: a read of more than one frame has just succeeded whose
\* samples lie on both sides of the physical end of the storage, one of
\* them an unscaled body sample
C24_Witness ==
    /\ variant = "OLA"
    /\ op = "read" /\ ret = "true"
    /\ frameSize >= 1
    /\ Len(out[1]) > frameSize
    /\ readCursor > 0 /\ Len(out[1]) > readCursor
    /\ \E j \in 1 .. Len(out[1]) : out[1][j] = FixedOne

\* C25: an OLA read returns false, raises nothing and leaves cursors,
\* available and storage as they were whenever numFrames exceeds
\* floor(available / frameSize) (defined for frameSize >= 1), and whenever
\* numFrames = 0 while less than one frame is available; a read that
\* succeeds returns whole frames only
C25_OlaReadRefused ==
    variant = "OLA" =>
        \A numFrames \in 0 .. MaxNumFrames :
            LET a == OlaReadResult(numFrames)
            IN  /\ (\/ frameSize >= 1 /\ numFrames > available \div frameSize
                    \/ numFrames = 0 /\ available < frameSize) =>
                       (a.ret = "false" /\ LeavesBuffer(a) /\ a.out = <<>>)
                /\ a.ret = "true" =>
                       \A c \in 1 .. Len(a.out) :
                           /\ Len(a.out[c]) >= frameSize
                           /\ Len(a.out[c]) % frameSize = 0

\* C25 witness: a read has just been refused while the buffer holds
\* samples that do not make up a whole number of frames
C25_Witness ==
    /\ variant = "OLA"
    /\ op = "read" /\ ret = "false" /\ out = <<>>
    /\ frameSize >= 1
    /\ available >= 1 /\ available % frameSize # 0

\* C26: primeWithSilence() sets the overlapSize samples of every channel
\* at writeCursor .. writeCursor + overlapSize - 1 (mod capacity) to zero
\* and changes nothing else: both cursors, available and every other
\* storage position stay as they were
C26_PrimeWithSilence ==
    [][(variant = "OLA" /\ op' = "primeWithSilence") =>
          /\ writeCursor' = writeCursor
          /\ readCursor' = readCursor
          /\ available' = available
          /\ params' = params
          /\ \A c \in 1 .. channels : \A p \in 0 .. (capacity - 1) :
                IF \E i \in 0 .. (overlapSize - 1) :
                       (writeCursor + i) % capacity = p
                THEN storage'[c][p] = 0
                ELSE storage'[c][p] = storage[c][p]]_vars

\* C26 witness: primeWithSilence has just run on a buffer that holds the
\* samples of an earlier write, and the overlap region at the write
\* cursor is silent
C26_Witness ==
    /\ variant = "OLA"
    /\ op = "primeWithSilence"
    /\ overlapSize >= 2 /\ frameSize >= 1
    /\ available >= 1
    /\ \A k \in 0 .. (overlapSize - 1) :
          storage[1][(writeCursor + k) % capacity] = 0
    /\ \E p \in 0 .. (capacity - 1) : storage[1][p] # 0

\* the positions of the OLA buffer counted in av samples from rpos on
Readable(rpos, av) == {(rpos + j) % capacity : j \in 0 .. (av - 1)}

\* C27: a position counted in available (one of the available positions
\* from readCursor on) is modified by no write and no primeWithSilence
\* before a read has consumed it, and the fade-out tail a write leaves at
\* the write cursor lies outside the readable region
C27_OnlyResolvedReadable ==
    variant = "OLA" =>
        /\ \A data \in OlaWriteInputs :
              LET a == OlaWriteResult(data)
              IN  /\ \A c \in 1 .. channels :
                        \A p \in Readable(readCursor, available) :
                            a.storage[c][p] = storage[c][p]
                  /\ (a.ret = "true" /\ Len(data) = channels) =>
                        \A k \in 0 .. (overlapSize - 1) :
                            (a.writeCursor + k) % capacity
                                \notin Readable(a.readCursor, a.available)
        /\ \A c \in 1 .. channels :
              \A p \in Readable(readCursor, available) :
                  Silenced(storage[c], writeCursor)[p] = storage[c][p]

\* the overlapSize samples of every channel at the write cursor are zero
SilentAtWriteCursor ==
    \A c \in 1 .. channels : \A k \in 0 .. (overlapSize - 1) :
        storage[c][(writeCursor + k) % capacity] = 0

\* C28: when the overlapSize samples at writeCursor are zero (fresh
\* buffer, after clear(), after primeWithSilence()), a successful OLA
\* write leaves exactly input[i] * window[i] at splice position i for i in
\* [0, overlapSize); window[0] = 0, so the first splice sample is 0
C28_SpliceOntoSilence ==
    (variant = "OLA" /\ SilentAtWriteCursor) =>
        \A data \in OlaWriteInputs :
            LET a == OlaWriteResult(data)
            IN  (a.ret = "true" /\ Len(data) = channels) =>
                    \A c \in 1 .. channels :
                        /\ \A i \in 0 .. (overlapSize - 1) :
                              a.storage[c][(writeCursor + i) % capacity] =
                                  data[c][i + 1] * Window(i)
                        /\ overlapSize >= 1 =>
                              /\ Window(0) = 0
                              /\ a.storage[c][writeCursor] = 0

\* C29: with overlapSize = 0 the OLA buffer is a plain FIFO: every
\* successful read returns the samples that were written and not yet
\* read, at unit gain and in the order written, and every successful
\* write of n samples increases available by n
C29_ZeroOverlapFifo ==
    (variant = "OLA" /\ overlapSize = 0) =>
        /\ \A c \in 1 .. channels : Len(fifo[c]) = available
        /\ \A numFrames \in 0 .. MaxNumFrames :
              LET a == OlaReadResult(numFrames)
              IN  a.ret = "true" =>
                      \A c \in 1 .. channels :
                          \A j \in 1 .. Len(a.out[c]) :
                              /\ j <= Len(fifo[c])
                              /\ a.out[c][j] = fifo[c][j] * FixedOne
        /\ \A data \in OlaWriteInputs :
              LET a == OlaWriteResult(data)
              IN  (a.ret = "true" /\ Len(data) = channels) =>
                      a.available = available + Len(data[1])

\* C29 witness: on a buffer without overlap a read has just returned two
\* different samples that lay on both sides of the physical end of the
\* storage, and written samples are still waiting
C29_Witness ==
    /\ variant = "OLA" /\ overlapSize = 0
    /\ op = "read" /\ ret = "true"
    /\ Len(out[1]) >= 2
    /\ out[1][1] # out[1][2]
    /\ readCursor > 0 /\ Len(out[1]) > readCursor
    /\ available >= 1

\* the overlap region at the write cursor holds the fade-out tail of a
\* constant block of amplitude amp
TailOfConstant(amp) ==
    \A c \in 1 .. channels : \A k \in 0 .. (overlapSize - 1) :
        storage[c][(writeCursor + k) % capacity] =
            amp * Window(overlapSize - 1 - k)

\* C30: when a constant block of amplitude A is spliced onto the tail of
\* a constant block of the same amplitude by the next write, every sample
\* of the splice region (old fade-out tail plus new fade-in) stays near A,
\* strictly between A / 2 and 3 A / 2, as in the scenario of two blocks of
\* ones
C30_EnergyPreservingCrossfade ==
    (variant = "OLA" /\ history = "constant") =>
        \A data \in OlaConstantBlocks :
            LET amp == data[1][1]
                a == OlaWriteResult(data)
            IN  (a.ret = "true" /\ TailOfConstant(amp)) =>
                    \A c \in 1 .. channels : \A i \in 0 .. (overlapSize - 1) :
                        LET spliced == a.storage[c][(writeCursor + i) % capacity]
                        IN  /\ 2 * spliced > amp * FixedOne
                            /\ 2 * spliced < 3 * amp * FixedOne

\* C31: in every state of the OLA buffer reachable by write, read,
\* primeWithSilence and clear, 0 <= available <= capacity, both cursors
\* lie in [0, capacity), and writeCursor = (readCursor + available) mod
\* capacity
C31_OlaIndexInvariant ==
    variant = "OLA" =>
        /\ 0 <= available /\ available <= capacity
        /\ writeCursor \in 0 .. (capacity - 1)
        /\ readCursor \in 0 .. (capacity - 1)
        /\ writeCursor = (readCursor + available) % capacity

\* C31 witness: after writes and reads the write cursor has wrapped past
\* the physical end and lies behind the read cursor, with samples waiting
C31_Witness ==
    /\ variant = "OLA"
    /\ op \in {"read", "write"} /\ ret = "true"
    /\ frameSize >= 1 /\ overlapSize >= 1
    /\ available >= 1 /\ available < capacity
    /\ writeCursor < readCursor

\* C32: a write whose outer container has no channel slices is a
\* channel-count mismatch on every buffer and raises a shape error, on the
\* framing buffers and on the OLA buffer, leaving the buffer as it was
C32_EmptyContainerRejected ==
    /\ Framing =>
          \A offset \in 0 .. MaxOffset : \A num \in 0 .. MaxLen :
              LET a == WriteResult(<<<<>>, offset, num>>)
              IN  a.ret \in ShapeErrors /\ LeavesBuffer(a)
    /\ variant = "OLA" =>
          LET a == OlaWriteResult(<<>>)
          IN  a.ret \in ShapeErrors /\ LeavesBuffer(a)

\* the block of the right channel count whose slices are all empty
EmptySlices == Block(0, channels, [c \in 1 .. channels |-> 0], {})

\* C33: a framing-buffer write whose channel slices are all empty, with
\* count = 0, returns true for every offset and leaves cursors, available
\* and storage as they were: the derived count inputLen - offset does not
\* wrap around
C33_EmptySlicesTrivial ==
    Framing =>
        \A offset \in 0 .. MaxOffset :
            LET a == WriteResult(<<EmptySlices, offset, 0>>)
            IN  a.ret = "true" /\ LeavesBuffer(a)

\* C34: an OLA write in which some channel slice has a length other than
\* channel 0's is rejected as a shape error before any storage sample or
\* cursor changes, and reads no input element beyond the end of a shorter
\* slice
C34_OlaRaggedRejected ==
    variant = "OLA" =>
        \A data \in OlaWriteInputs :
            (Len(data) = channels /\ UnequalSlices(data)) =>
                LET a == OlaWriteResult(data)
                IN  a.ret \in ShapeErrors /\ LeavesBuffer(a)

\* C35: a framing-buffer write or push modifies no storage slot of the
\* readable region: every slot at readCursor .. readCursor + available - 1
\* (mod capacity) holds after the call what it held before, whether the
\* call succeeds, returns false or raises
C35_ReadableUntouched ==
    Framing =>
        /\ \A call \in WriteCalls :
              \A c \in 1 .. channels : \A p \in Readable(readCursor, available) :
                  WriteResult(call).storage[c][p] = storage[c][p]
        /\ \A step \in PushInputs :
              \A c \in 1 .. channels : \A p \in Readable(readCursor, available) :
                  PushResult(step).storage[c][p] = storage[c][p]

\* C36: a successful read returns valid data only: on a framing buffer the
\* span per channel is at most available and at most what was written and
\* not yet consumed, on the OLA buffer numFrames * frameSize is at most
\* available; every returned element comes from a slot of the readable
\* region
C36_ReadOnlyValidData ==
    /\ Framing =>
          \A n \in 0 .. MaxNumFrames :
              LET a == ReadResult(n)
              IN  a.ret = "true" =>
                      \A c \in 1 .. channels :
                          /\ Len(a.out[c]) <= available
                          /\ available <= capacity
                          /\ Len(a.out[c]) <= Len(fifo[c])
                          /\ \A j \in 0 .. (Len(a.out[c]) - 1) :
                                a.out[c][j + 1] =
                                    storage[c][(readCursor + j) % capacity]
    /\ variant = "OLA" =>
          \A n \in 0 .. MaxNumFrames :
              LET a == OlaReadResult(n)
              IN  a.ret = "true" =>
                      \A c \in 1 .. channels :
                          /\ Len(a.out[c]) <= available
                          /\ available <= capacity
                          /\ \A j \in 0 .. (Len(a.out[c]) - 1) :
                                a.out[c][j + 1] =
                                    storage[c][(readCursor + j) % capacity]


\* C37: a successful framing read that consumes framesConsumed =
\* max(0, n - keepFrames) frames lowers getAvailableFramesRead() by exactly
\* framesConsumed and consumes no more elements than were available, for
\* every accepted frameSize and hopSize
C37_ExactFrameAccounting ==
    (Framing /\ hopSize >= 1) =>
        \A n \in 0 .. MaxNumFrames :
            LET a == ReadResult(n)
                before == getAvailableFramesRead
                consumed == FramesConsumed(CountToRead(n))
            IN  a.ret = "true" =>
                    /\ consumed * hopSize <= available
                    /\ FramesOf(a.available, frameSize, hopSize)
                           = before - consumed


\* C38: in every reachable state of a framing buffer constructed with valid
\* arguments and keepFrames = 0, either a write of one element succeeds or
\* read(out, 0) succeeds and frees at least hopSize elements: the buffer is
\* never full with no read able to succeed
C38_NoStuckState ==
    (Framing /\ keepFrames = 0 /\ minFrames >= 1 /\ ret # "ub") =>
        \/ \E call \in WriteCalls :
              /\ ValidShape(call)
              /\ CountOf(call) = 1
              /\ WriteResult(call).ret = "true"
        \/ LET a == ReadResult(0)
           IN  a.ret = "true" /\ a.count >= hopSize


\* the span a read of the twin would return
TwinSpan(total) ==
    [c \in 1 .. channels |->
        IF variant = "3D" THEN CopyOut3D(twin[c], total, readCursor)
        ELSE CopyOut2D(twin[c], total, readCursor)]

\* C39: after clear() the buffer behaves as a newly constructed one given
\* the same calls: every read ends the same way and returns the same data
\* as on the twin, so what clear() leaves in the storage of a framing
\* buffer is never seen; the OLA buffer is, after clear(), in the state
\* construction leaves it in
C39_ClearIsReset ==
    /\ Framing =>
          \A n \in 0 .. MaxNumFrames :
              LET a == ReadResult(n)
              IN  a.ret = "true" =>
                      a.out = TwinSpan(TotalSpan(CountToRead(n)))
    /\ (variant = "OLA" /\ op = "clear") =>
          /\ storage = NewStorage
          /\ writeCursor = 0 /\ readCursor = 0 /\ available = 0

====
